---- MODULE Spec2Model ----
(***************************************************************************)
(* Model of cdo-prototype/src/App.tsx: the monthly simulation `simulate`,  *)
(* the per-city projection `cityCollection`, and the parameter handlers of *)
(* `App` (slider edits, policy.json overlay, save / load of the settings   *)
(* in local storage).                                                      *)
(*                                                                         *)
(* Numbers.  The program computes in IEEE doubles; the model computes in   *)
(* fixed point, every quantity an integer count of a stated unit:          *)
(*   population, births, deaths, migration, employed, unemployed           *)
(*                       tenths of a person        (PersonScale)           *)
(*   employedShare       1/10000000                (ShareScale)            *)
(*   birthRate, deathRate, employmentShock         1/10000                 *)
(*   the [0,1] sliders, birthRateAdj, deathRateAdj, wageIndex, hoursIndex  *)
(*                       hundredths (the sliders' step)                    *)
(*   months, migrationNet, retireAge, incomeThousand, savingsThousand      *)
(*                       whole units                                       *)
(* A product is cut to the unit of its result (floor), where the program   *)
(* rounds to the nearest double.  Math.round is exact: the nearest whole   *)
(* number, a half going up.                                                *)
(***************************************************************************)
EXTENDS Integers, Sequences, FiniteSets, TLC

\* ---------------------------------------------------------------- bounds
\* The longest horizon given to simulate in SimSpec.
MaxMonths == 3
\* The number of calls of simulate in one behaviour of SimSpec.
MaxCalls == 3
\* The number of handler invocations (edits and clicks) in one behaviour of Spec.
MaxOps == 3
\* The number of policy.json requests in flight at once.
MaxInFlight == 1

\* ------------------------------------------------------------ arithmetic
Max(a, b) == IF a >= b THEN a ELSE b
Min(a, b) == IF a <= b THEN a ELSE b
Abs(a) == IF a >= 0 THEN a ELSE -a

\* One limb of the long multiplication below.
Limb == 10000

(* The product a * n as five limbs, most significant first, for            *)
(* 0 <= a < 2^31 and 0 <= n < Limb^2.  The product does not fit TLC's      *)
(* 32-bit integers, so it is formed limb by limb; every intermediate       *)
(* value fits.                                                             *)
LimbProduct(a, n) ==
  LET a0 == a % Limb
      a1 == (a \div Limb) % Limb
      a2 == a \div (Limb * Limb)
      n0 == n % Limb
      n1 == n \div Limb
      c0 == a0 * n0
      k1 == a1 * n0 + a0 * n1 + (c0 \div Limb)
      k2 == a2 * n0 + a1 * n1 + (k1 \div Limb)
      k3 == a2 * n1 + (k2 \div Limb)
  IN  <<k3 \div Limb, k3 % Limb, k2 % Limb, k1 % Limb, c0 % Limb>>

\* one step of the long division by m: <<quotient so far, remainder>>
DivStep(qr, digit, m) ==
  <<qr[1] * Limb + ((qr[2] * Limb + digit) \div m), (qr[2] * Limb + digit) % m>>

\* <<q, r>> of the limbs e divided by m, 0 < m <= 200000
LongDiv(e, m) ==
  DivStep(DivStep(DivStep(DivStep(DivStep(<<0, 0>>, e[1], m), e[2], m), e[3], m),
                  e[4], m), e[5], m)

\* the limbs shifted down by one, the lowest dropped
ShiftDown(e) == <<0, e[1], e[2], e[3], e[4]>>

\* <<q, r * Limb + low>>: the remainder of a division by m * Limb
WithLow(qr, low) == <<qr[1], qr[2] * Limb + low>>

(* <<q, r>> with a * n = q * d + r and 0 <= r < d, for 0 <= a < 2^31,      *)
(* 0 <= n < Limb^2 and 0 < d <= 200000 or d = m * Limb with m <= 200000.   *)
MulDivLimbs(e, d) ==
  IF d > 200000 THEN WithLow(LongDiv(ShiftDown(e), d \div Limb), e[5])
  ELSE LongDiv(e, d)

MulDivNat(a, n, d) == MulDivLimbs(LimbProduct(a, n), d)

\* <<-q, 0>> or <<-q - 1, d - r>>: the floor quotient of the negated product
NegateQR(x, d) == IF x[2] = 0 THEN <<-x[1], 0>> ELSE <<-x[1] - 1, d - x[2]>>

\* <<q, r>> with a * n = q * d + r and 0 <= r < d, for a of either sign.
MulDivQR(a, n, d) ==
  IF a >= 0 THEN MulDivNat(a, n, d) ELSE NegateQR(MulDivNat(-a, n, d), d)

\* floor(a * n / d), n of either sign
MulDiv(a, n, d) ==
  IF n >= 0 THEN MulDivQR(a, n, d)[1] ELSE MulDivQR(-a, -n, d)[1]

\* the quotient rounded to the nearest whole number, a half going up
RoundQR(x, d) == x[1] + (IF 2 * x[2] >= d THEN 1 ELSE 0)

\* Math.round(a * n / d)
MulDivRound(a, n, d) ==
  IF n >= 0 THEN RoundQR(MulDivQR(a, n, d), d) ELSE RoundQR(MulDivQR(-a, -n, d), d)

\* --------------------------------------------------------------- numbers
\* tenths of a person in one person
PersonScale == 10
\* units of employedShare in 1.0
ShareScale == 10000000

\* Math.round of a count held in tenths: floor(x + 1/2), in whole persons
MathRound(x) == (x + (PersonScale \div 2)) \div PersonScale

\* 1000000 * Math.sin((2 * Math.PI * t) / 12), t >= 0
SinMicro(t) ==
  LET table == <<0, 500000, 866025, 1000000, 866025, 500000,
                 0, -500000, -866025, -1000000, -866025, -500000>>
  IN  table[(t % 12) + 1]

\* ------------------------------------------------------------ JS objects
\* An object is a function from its own keys; a key it lacks reads undefined.
Has(o, k) == k \in DOMAIN o
\* the number an arithmetic expression reads at o[k]; where the key is
\* missing the result is NaN, which the caller records (see NaNs below)
Val(o, k) == IF Has(o, k) THEN o[k] ELSE 0
HasAll(o, ks) == \A k \in ks : Has(o, k)

\* ------------------------------------------------------------- simulate
InitialPopulation == 146000000
\* 0.60
InitialShare == 6000000
\* 0.45 and 0.7
ShareFloor == 4500000
ShareCeil == 7000000
\* 0.68
LabourCeiling == 68

\* the loop condition of simulate
\* the loop test written with <= : one pass too many
LoopCondInclusive(tt, months) == tt <= months
LoopCond(tt, months) == tt < months

\* birthRate * (1 + birthRateAdj + 0.1 * (pairCreateRate + marryRate)
\*              - 0.05 * divorceRate), in 1/(10000 * 2000)
EffectiveBirthRate(p) ==
  p.birthRate * (2000 + 20 * Val(p.peopleActions, "birthRateAdj")
                 + 2 * (Val(p.peopleActions, "pairCreateRate")
                        + Val(p.peopleActions, "marryRate"))
                 - Val(p.peopleActions, "divorceRate"))

\* deathRate * (1 + deathRateAdj + 0.5 * illness), in 1/(10000 * 200)
EffectiveDeathRate(p) ==
  p.deathRate * (200 + 2 * Val(p.peopleActions, "deathRateAdj")
                 + Val(p.peopleProps, "illness"))

\* (effectiveBirthRate / 12) * population, in tenths
Births(p, pop) == MulDiv(pop, EffectiveBirthRate(p), 12 * 10000 * 2000)

\* (effectiveDeathRate / 12) * population, in tenths
Deaths(p, pop) == MulDiv(pop, EffectiveDeathRate(p), 12 * 10000 * 200)

\* 1 + (migrateProb - 0.5) * 0.5 + (wageIndex - 1) * 0.3, in thousandths
MigFactor(p) ==
  1000 + 5 * (Val(p.peopleActions, "migrateProb") - 50)
       + 3 * (Val(p.orgActions, "wageIndex") - 100)

\* (migrationNet / 12) * migFactor, in tenths
Migration(p) == MulDiv(p.migrationNet, MigFactor(p), (12 * 1000) \div PersonScale)

\* population = population + births - deaths + migration
\* the update without its migration term
NextPopulationNoMigration(pop, births, deaths, migration) ==
  pop + births - deaths
NextPopulation(pop, births, deaths, migration) ==
  pop + births - deaths + migration

\* employmentShock * Math.sin((2 * Math.PI * t) / 12)
\* the shock taken at the horizon instead of the month index
ShockAtHorizon(p, tt) == (p.employmentShock * SinMicro(p.months)) \div 1000

Shock(p, tt) == (p.employmentShock * SinMicro(tt)) \div 1000

\* employedShare before the clamp
RawShare(p, tt, share) ==
  share
  + Shock(p, tt)
  + 2000 * (Val(p.peopleProps, "skills") - 50)
  + 1000 * (Val(p.peopleActions, "jobSearchProb") - 50)
  - 1000 * (Val(p.peopleActions, "quitProb") - 50)
  + 1000 * (Val(p.orgActions, "hireRate") - Val(p.orgActions, "fireRate"))
  + 300 * ((Val(p.orgActions, "wageIndex") - 100)
           + (Val(p.orgActions, "hoursIndex") - 100))
  - 2000 * (Val(p.peopleProps, "fatigue") + Val(p.peopleProps, "illness") - 100)
  - Max(0, 65 - Val(p.peopleActions, "retireAge")) * 20000

\* Math.max(0.45, Math.min(0.7, employedShare))
ClampShare(x) == Max(ShareFloor, Min(ShareCeil, x))

\* population * employedShare
Employed(pop, share) == MulDiv(pop, share, ShareScale)

\* Math.max(0, population * 0.68 - employed)
\* the difference without Math.max(0, ...)
UnemployedUnclamped(pop, employed) == MulDiv(pop, LabourCeiling, 100) - employed

Unemployed(pop, employed) == Max(0, MulDiv(pop, LabourCeiling, 100) - employed)

(* The locals of simulate that are NaN after a step, given those that were *)
(* before it: a missing field reads undefined, arithmetic on it is NaN,    *)
(* and Math.max / Math.min return NaN for a NaN argument.                  *)
NaNs(p, before) ==
  LET migNaN == ~Has(p.peopleActions, "migrateProb") \/ ~Has(p.orgActions, "wageIndex")
      popNaN == \/ "population" \in before
                \/ ~HasAll(p.peopleActions, {"birthRateAdj", "pairCreateRate",
                                             "marryRate", "divorceRate", "deathRateAdj"})
                \/ ~Has(p.peopleProps, "illness")
                \/ migNaN
      shareNaN == \/ "employedShare" \in before
                  \/ ~HasAll(p.peopleProps, {"skills", "fatigue", "illness"})
                  \/ ~HasAll(p.peopleActions, {"jobSearchProb", "quitProb", "retireAge"})
                  \/ ~HasAll(p.orgActions, {"hireRate", "fireRate", "wageIndex",
                                            "hoursIndex"})
  IN  (IF popNaN THEN {"population"} ELSE {})
      \cup (IF shareNaN THEN {"employedShare"} ELSE {})
      \cup (IF migNaN THEN {"migration"} ELSE {})

\* the TimePoint pushed: every field through Math.round
TimePoint(tt, nan, pop2, employed, unemployed, migration) ==
  [t |-> tt,
   population |-> MathRound(pop2),
   employed |-> MathRound(employed),
   unemployed |-> MathRound(unemployed),
   migration |-> MathRound(migration),
   nan |-> (IF "population" \in nan THEN {"population"} ELSE {})
           \cup (IF nan \cap {"population", "employedShare"} # {}
                   THEN {"employed", "unemployed"} ELSE {})
           \cup (IF "migration" \in nan THEN {"migration"} ELSE {})]

\* a NaN value's number is meaningless and held as 0
Num(isNaN, x) == IF isNaN THEN 0 ELSE x

\* the rounded population stored back into the local
StepEmployedRounded(tt, nan, pop2, share2, migration, employed) ==
  [population |-> MathRound(pop2) * PersonScale,
   employedShare |-> share2,
   nan |-> nan \ {"migration"},
   point |-> TimePoint(tt, nan, pop2, employed,
                       Num(nan \cap {"population", "employedShare"} # {},
                           Unemployed(pop2, employed)),
                       migration)]

StepEmployed(tt, nan, pop2, share2, migration, employed) ==
  [population |-> pop2,
   employedShare |-> share2,
   nan |-> nan \ {"migration"},
   point |-> TimePoint(tt, nan, pop2, employed,
                       Num(nan \cap {"population", "employedShare"} # {},
                           Unemployed(pop2, employed)),
                       migration)]

StepLocals(tt, nan, pop2, share2, migration) ==
  StepEmployed(tt, nan, pop2, share2, migration,
               Num(nan \cap {"population", "employedShare"} # {},
                   Employed(pop2, share2)))

StepMigration(p, tt, pop, share, nan, migration) ==
  StepLocals(tt, nan,
             Num("population" \in nan,
                 NextPopulation(pop, Births(p, pop), Deaths(p, pop), migration)),
             Num("employedShare" \in nan, ClampShare(RawShare(p, tt, share))),
             Num("migration" \in nan, migration))

(* One pass of the loop body: the locals after it (population,             *)
(* employedShare, and `nan`, those of them that are NaN) and the TimePoint *)
(* it pushes (`point`).                                                    *)
SimulateStep(p, tt, pop, share, nanBefore) ==
  StepMigration(p, tt, pop, share, NaNs(p, nanBefore), Migration(p))

RECURSIVE SimulateLoop(_, _, _, _, _, _)
SimulateNext(p, tt, res, s) ==
  SimulateLoop(p, tt + 1, s.population, s.employedShare, s.nan, Append(res, s.point))

SimulateLoop(p, tt, pop, share, nan, res) ==
  IF ~LoopCond(tt, p.months) THEN res
  ELSE SimulateNext(p, tt, res, SimulateStep(p, tt, pop, share, nan))

\* simulate(params): the whole call
simulate(p) ==
  SimulateLoop(p, 0, InitialPopulation * PersonScale, InitialShare, {}, <<>>)

\* ------------------------------------------------------- cityCollection
cities == <<
  [name |-> "Moskva",          pop |-> 12600000],
  [name |-> "Sankt-Peterburg", pop |-> 5600000],
  [name |-> "Novosibirsk",     pop |-> 1620000],
  [name |-> "Ekaterinburg",    pop |-> 1550000],
  [name |-> "Kazan",           pop |-> 1350000],
  [name |-> "Nizhniy Novgorod", pop |-> 1250000],
  [name |-> "Samara",          pop |-> 1160000],
  [name |-> "Omsk",            pop |-> 1120000],
  [name |-> "Rostov-na-Donu",  pop |-> 1130000],
  [name |-> "Ufa",             pop |-> 1130000],
  [name |-> "Krasnoyarsk",     pop |-> 1100000] >>

RECURSIVE SumPop(_, _)
SumPop(cs, i) == IF i = 0 THEN 0 ELSE cs[i].pop + SumPop(cs, i - 1)

\* cities.reduce((s, c) => s + c.pop, 0)
totalBase == SumPop(cities, Len(cities))

\* data[data.length - 1]; undefined for an empty data
LastPoint(data) == data[Len(data)]

\* data[Math.max(0, data.length - 2)]
\* a missing second-to-last snapshot read as one with nobody employed
PrevPointOrNobody(data) ==
  IF Len(data) >= 2 THEN data[Len(data) - 1]
  ELSE [data[1] EXCEPT !.employed = 0]
PrevPoint(data) == data[Max(1, Len(data) - 1)]

\* last.employed - prev.employed
\* the change measured from the first snapshot
EmployedDeltaFromFirst(data) == LastPoint(data).employed - data[1].employed
EmployedDelta(data) == LastPoint(data).employed - PrevPoint(data).employed

\* reading last.employed of an undefined last throws a TypeError
CityCollectionThrows(data) == Len(data) = 0

\* one feature's properties
Feature(c, lastEmployed, employedDelta, valueNaN, growthNaN) ==
  [name |-> c.name,
   value |-> Num(valueNaN, MulDivRound(lastEmployed, c.pop, totalBase)),
   growth |-> Num(growthNaN, MulDivRound(employedDelta, c.pop, totalBase)),
   nan |-> (IF valueNaN THEN {"value"} ELSE {})
           \cup (IF growthNaN THEN {"growth"} ELSE {})]

\* the features of the collection, for a non-empty data
cityCollection(data) ==
  [i \in 1..Len(cities) |->
     Feature(cities[i], LastPoint(data).employed, EmployedDelta(data),
             "employed" \in LastPoint(data).nan,
             "employed" \in (LastPoint(data).nan \cup PrevPoint(data).nan))]

\* ----------------------------------------------------------------- App
\* the initial value of the params state
defaultParams ==
  [months |-> 36,
   birthRate |-> 110,
   deathRate |-> 130,
   migrationNet |-> 150000,
   employmentShock |-> 10,
   peopleProps |->
     [careerOrientation |-> 60, openness |-> 50, stress |-> 40, skills |-> 60,
      memory |-> 50, socialNorms |-> 70, incomeThousand |-> 60,
      savingsThousand |-> 300, fatigue |-> 30, illness |-> 20],
   peopleActions |->
     [jobSearchProb |-> 50, hireProb |-> 30, quitProb |-> 20, migrateProb |-> 20,
      trainingRate |-> 10, educationRate |-> 5, retireAge |-> 64, meetRate |-> 20,
      pairCreateRate |-> 15, marryRate |-> 12, divorceRate |-> 5,
      birthRateAdj |-> 0, deathRateAdj |-> 0],
   orgActions |->
     [hireRate |-> 25, fireRate |-> 15, wageIndex |-> 100, hoursIndex |-> 100]]

\* the three grouped sub-objects of the params
Groups == {"peopleProps", "peopleActions", "orgActions"}

\* the own keys of the params and of each group, in insertion order
TopOrder == <<"months", "birthRate", "deathRate", "migrationNet", "employmentShock",
              "peopleProps", "peopleActions", "orgActions">>
GroupOrder(g) ==
  CASE g = "peopleProps" ->
         <<"careerOrientation", "openness", "stress", "skills", "memory",
           "socialNorms", "incomeThousand", "savingsThousand", "fatigue", "illness">>
    [] g = "peopleActions" ->
         <<"jobSearchProb", "hireProb", "quitProb", "migrateProb", "trainingRate",
           "educationRate", "retireAge", "meetRate", "pairCreateRate", "marryRate",
           "divorceRate", "birthRateAdj", "deathRateAdj">>
    [] g = "orgActions" ->
         <<"hireRate", "fireRate", "wageIndex", "hoursIndex">>

\* the JSON value null, where a document gives it for a group
JsNull == [null |-> TRUE]

(* JSON.stringify of an object of the params' shape: its own keys in       *)
(* order, a group as a nested object, null as null.  The text is held as   *)
(* the sequence of its members.                                            *)
StringifyGroup(g, o) ==
  LET ks == SelectSeq(GroupOrder(g), LAMBDA k : Has(o, k))
  IN  [i \in 1..Len(ks) |-> [key |-> ks[i], num |-> o[ks[i]]]]

JSONstringify(o) ==
  LET ks == SelectSeq(TopOrder, LAMBDA k : Has(o, k))
  IN  [i \in 1..Len(ks) |->
         IF ks[i] \in Groups
           THEN IF o[ks[i]] = JsNull
                  THEN [key |-> ks[i], kind |-> "null", num |-> 0, members |-> <<>>]
                  ELSE [key |-> ks[i], kind |-> "object", num |-> 0,
                        members |-> StringifyGroup(ks[i], o[ks[i]])]
           ELSE [key |-> ks[i], kind |-> "number", num |-> o[ks[i]], members |-> <<>>]]

\* JSON.parse of such a text
ParseMembers(ms) ==
  [k \in {ms[i].key : i \in DOMAIN ms} |->
     ms[CHOOSE i \in DOMAIN ms : ms[i].key = k].num]

JSONparse(text) ==
  [k \in {text[i].key : i \in DOMAIN text} |->
     LET e == text[CHOOSE i \in DOMAIN text : text[i].key = k]
     IN  CASE e.kind = "number" -> e.num
           [] e.kind = "null" -> JsNull
           [] e.kind = "object" -> ParseMembers(e.members)]

\* x ?? y for a group x the document may lack (undefined) or give as null
Coalesce(json, g, fallback) ==
  IF Has(json, g) /\ json[g] # JsNull THEN json[g] ELSE fallback

\* { ...p, ...json }
Spread(p, json) ==
  [k \in DOMAIN p \cup DOMAIN json |-> IF Has(json, k) THEN json[k] ELSE p[k]]

\* the updater of the "load policy.json" handler
PolicyMerge(p, json) ==
  [k \in DOMAIN Spread(p, json) \cup Groups |->
     IF k \in Groups THEN Coalesce(json, k, p[k]) ELSE Spread(p, json)[k]]

\* the spread written the other way round: { ...json, ...p }
SettingsMergeCurrentWins(p, json) == Spread(json, p)

\* the updater of the "load settings" handler
SettingsMerge(p, json) ==
  [k \in DOMAIN Spread(p, json) \cup Groups |->
     IF k \in Groups THEN Coalesce(json, k, p[k]) ELSE Spread(p, json)[k]]

\* the fields the JSX formats with .toFixed: an undefined one throws
ToFixedFields(g) ==
  CASE g = "peopleProps" ->
         {"careerOrientation", "openness", "stress", "skills", "memory",
          "socialNorms", "fatigue", "illness"}
    [] g = "peopleActions" ->
         {"jobSearchProb", "hireProb", "quitProb", "migrateProb", "trainingRate",
          "educationRate", "meetRate", "pairCreateRate", "marryRate", "divorceRate",
          "birthRateAdj", "deathRateAdj"}
    [] g = "orgActions" ->
         {"hireRate", "fireRate", "wageIndex", "hoursIndex"}

JsxThrows(p) == \E g \in Groups : ~HasAll(p[g], ToFixedFields(g))

(* What a render of App throws, given params p and the data memo computed  *)
(* from it, in the order of the body: the cityCollection memo reads        *)
(* last.employed, then the JSX formats the fields.                         *)
RenderThrows(p, d) ==
  IF CityCollectionThrows(d) THEN "cityCollection"
  ELSE IF JsxThrows(p) THEN "jsx"
  ELSE "none"

\* the object without one key
Without(o, k) == [x \in DOMAIN o \ {k} |-> o[x]]

(* The slider edits the model makes: <<key, value>> for the top-level      *)
(* sliders and <<group, key, value>> for the grouped ones, every value in  *)
(* the slider's range.                                                     *)
TopEdits == {<<"months", 6>>, <<"migrationNet", -500000>>}
GroupEdits == {<<"peopleProps", "skills", 100>>,
               <<"peopleActions", "retireAge", 55>>}

(* The documents policy.json may hold: an empty overlay, top-level fields  *)
(* (a horizon of 0, 1, -3 among them), a whole group, a group with only    *)
(* some of its fields, a group without retireAge, and a null group.        *)
PolicyDocs ==
  { [months |-> 0],
    [months |-> 1],
    [months |-> -3, birthRate |-> 150],
    [deathRate |-> 100, peopleActions |-> JsNull],
    [peopleProps |-> [skills |-> 90]],
    [peopleActions |-> Without(defaultParams.peopleActions, "retireAge")],
    [months |-> 12,
     orgActions |-> [hireRate |-> 40, fireRate |-> 10, wageIndex |-> 120,
                     hoursIndex |-> 90]] }

(* What the storage key may hold when the page opens: nothing, the empty   *)
(* string, a text that is no JSON, or a document an earlier visit stored.  *)
StoredDocs == {[months |-> 0, peopleProps |-> [skills |-> 90]]}
InitialStorage ==
  {[kind |-> "none", text |-> <<>>],
   [kind |-> "empty", text |-> <<>>],
   [kind |-> "garbage", text |-> <<>>]}
  \cup {[kind |-> "json", text |-> JSONstringify(d)] : d \in StoredDocs}

\* ------------------------------------------- simulate, one step at a time
(* The arguments simulate is called with in SimSpec: the sliders at the    *)
(* ends of their ranges in the direction that raises (boom) or lowers      *)
(* (slump) the employed share, a net migration far below the slider's      *)
(* range (drain), every horizon from 0 to MaxMonths, and for the default   *)
(* parameters a horizon below 0.                                           *)
boomParams ==
  [defaultParams EXCEPT
     !.birthRate = 200, !.deathRate = 50, !.migrationNet = 500000,
     !.employmentShock = 50,
     !.peopleProps.skills = 100, !.peopleProps.fatigue = 0,
     !.peopleProps.illness = 0,
     !.peopleActions.jobSearchProb = 100, !.peopleActions.quitProb = 0,
     !.peopleActions.retireAge = 68, !.peopleActions.birthRateAdj = 50,
     !.peopleActions.deathRateAdj = -50,
     !.orgActions.hireRate = 100, !.orgActions.fireRate = 0,
     !.orgActions.wageIndex = 150, !.orgActions.hoursIndex = 150]

slumpParams ==
  [defaultParams EXCEPT
     !.birthRate = 50, !.deathRate = 200, !.migrationNet = -500000,
     !.employmentShock = -50,
     !.peopleProps.skills = 0, !.peopleProps.fatigue = 100,
     !.peopleProps.illness = 100,
     !.peopleActions.jobSearchProb = 0, !.peopleActions.quitProb = 100,
     !.peopleActions.retireAge = 55, !.peopleActions.birthRateAdj = -50,
     !.peopleActions.deathRateAdj = 50,
     !.orgActions.hireRate = 0, !.orgActions.fireRate = 100,
     !.orgActions.wageIndex = 50, !.orgActions.hoursIndex = 50]

drainParams == [defaultParams EXCEPT !.migrationNet = -900000000]

(* Nothing moves but the shock: no births, deaths or migration, and every  *)
(* term of the share but the shock is 0.                                   *)
stillParams ==
  [defaultParams EXCEPT
     !.birthRate = 0, !.deathRate = 0, !.migrationNet = 0,
     !.employmentShock = 50,
     !.peopleProps.skills = 50, !.peopleProps.fatigue = 50,
     !.peopleProps.illness = 50,
     !.peopleActions.jobSearchProb = 50, !.peopleActions.quitProb = 50,
     !.peopleActions.retireAge = 65,
     !.orgActions.hireRate = 20, !.orgActions.fireRate = 20,
     !.orgActions.wageIndex = 100, !.orgActions.hoursIndex = 100]

Profiles == {defaultParams, boomParams, slumpParams, drainParams}
Horizons == 0..MaxMonths
SimInputs == {[q EXCEPT !.months = m] : q \in Profiles, m \in Horizons}

\* the default parameters with a horizon below 0
NegativeInputs == {[defaultParams EXCEPT !.months = -1]}

\* the still parameters, for a horizon of two months
StillInputs == {[stillParams EXCEPT !.months = 2]}

VARIABLES
  simParams,       \* the argument of the running (or last) call of simulate
  pc,              \* "idle", "loop", "returned", "projected", "threw"
  t,               \* the loop counter
  population,      \* the local population, in tenths
  employedShare,   \* the local employedShare
  nanLocals,       \* the locals that are NaN
  result,          \* the local result
  features,        \* the features cityCollection made of the last result
  calls,           \* the number of calls made
  history,         \* <<argument, returned value>> of every call that returned
  prevPopulation,  \* population before the last pass of the loop
  rawShare,        \* employedShare before the clamp of the last pass
  passes           \* every pass of the loop made so far, in any call

simVars == <<simParams, pc, t, population, employedShare, nanLocals, result,
             features, calls, history, prevPopulation, rawShare, passes>>

VARIABLES
  params,        \* the params state
  data,          \* the data memo of the last committed render
  collection,    \* the cityCollection memo of the last committed render
  storage,       \* the local-storage item 'policy'
  inflight,      \* the policy.json requests awaiting their response
  thrown,        \* what the last render threw: "none", "cityCollection", "jsx"
  ops,           \* the number of handler invocations so far
  lastOp,        \* the last step taken
  beforeParams,  \* params before the last step
  overlay,       \* the document the last load merged
  escaped,       \* an exception has propagated out of a handler
  savedParams,   \* params at the last "save settings"
  storedBySave,  \* the storage item is the one "save settings" wrote
  map            \* the maplibre Map that mapRef.current holds

appVars == <<params, data, collection, storage, inflight, thrown, ops, lastOp,
             beforeParams, overlay, escaped, savedParams, storedBySave, map>>

vars == <<simParams, pc, t, population, employedShare, nanLocals, result,
          features, calls, history, prevPopulation, rawShare, passes,
          params, data, collection, storage, inflight, thrown, ops, lastOp,
          beforeParams, overlay, escaped, savedParams, storedBySave, map>>

\* locals that outlive the call: a call starts from what the last one left
EntryLocalsLeftOver == [population |-> population,
                       employedShare |-> employedShare]

\* the locals at entry: population = 146_000_000, employedShare = 0.60
EntryLocals == [population |-> InitialPopulation * PersonScale,
                employedShare |-> InitialShare]

\* no call has been made: the locals do not exist yet and are held as 0
SimInit ==
  /\ simParams = defaultParams
  /\ pc = "idle"
  /\ t = 0
  /\ population = 0
  /\ employedShare = 0
  /\ nanLocals = {}
  /\ result = <<>>
  /\ features = <<>>
  /\ calls = 0
  /\ history = {}
  /\ prevPopulation = 0
  /\ rawShare = 0
  /\ passes = {}

\* simulate(p) is entered: the destructuring and the three declarations
SimCall(p) ==
  /\ UNCHANGED appVars
  /\ pc \in {"idle", "projected", "threw"}
  /\ calls < MaxCalls
  /\ simParams' = p
  /\ pc' = "loop"
  /\ t' = 0
  /\ population' = EntryLocals.population
  /\ employedShare' = EntryLocals.employedShare
  /\ nanLocals' = {}
  /\ result' = <<>>
  /\ calls' = calls + 1
  /\ prevPopulation' = EntryLocals.population
  /\ rawShare' = EntryLocals.employedShare
  /\ UNCHANGED <<features, history, passes>>

(* The record of one pass: the static parameters (the horizon left out),   *)
(* the month index, and the locals before and after.                       *)
Pass(p, tt, pop, share, s) ==
  [static |-> [p EXCEPT !.months = 0], t |-> tt,
   population |-> pop, employedShare |-> share,
   nextPopulation |-> s.population, nextShare |-> s.employedShare]

\* the snapshot put at the front of result (unshift) instead of its end
IterateToFront(s) ==
  /\ population' = s.population
  /\ employedShare' = s.employedShare
  /\ nanLocals' = s.nan
  /\ result' = <<s.point>> \o result
  /\ passes' = passes \cup {Pass(simParams, t, population, employedShare, s)}

\* one pass of the loop body, and t += 1
IterateTo(s) ==
  /\ population' = s.population
  /\ employedShare' = s.employedShare
  /\ nanLocals' = s.nan
  /\ result' = Append(result, s.point)
  /\ passes' = passes \cup {Pass(simParams, t, population, employedShare, s)}

SimIterate ==
  /\ UNCHANGED appVars
  /\ pc = "loop"
  /\ LoopCond(t, simParams.months)
  /\ IterateTo(SimulateStep(simParams, t, population, employedShare, nanLocals))
  /\ prevPopulation' = population
  /\ rawShare' = RawShare(simParams, t, employedShare)
  /\ t' = t + 1
  /\ UNCHANGED <<simParams, pc, features, calls, history>>

\* the loop ends: return result
SimReturn ==
  /\ UNCHANGED appVars
  /\ pc = "loop"
  /\ ~LoopCond(t, simParams.months)
  /\ pc' = "returned"
  /\ history' = history \cup {<<simParams, result>>}
  /\ UNCHANGED <<simParams, t, population, employedShare, nanLocals, result,
                 features, calls, prevPopulation, rawShare, passes>>

\* the cityCollection memo is computed from the returned data
SimProject ==
  /\ UNCHANGED appVars
  /\ pc = "returned"
  /\ IF CityCollectionThrows(result)
       THEN pc' = "threw" /\ UNCHANGED features
       ELSE pc' = "projected" /\ features' = cityCollection(result)
  /\ UNCHANGED <<simParams, t, population, employedShare, nanLocals, result,
                 calls, history, prevPopulation, rawShare, passes>>

SimNext ==
  \/ \E p \in SimInputs \cup NegativeInputs \cup StillInputs : SimCall(p)
  \/ SimIterate
  \/ SimReturn
  \/ SimProject

\* ------------------------------------------------ properties of simulate
\* the snapshots the last pass of the loop appended
Snapshots == 1..Len(result)

RECURSIVE SumOf(_, _, _)
SumOf(fs, field, i) == IF i = 0 THEN 0 ELSE fs[i][field] + SumOf(fs, field, i - 1)

(* C1: a call of simulate returns exactly max(0, months) snapshots, one     *)
(* per month, numbered 0, 1, ... in order; for months <= 0 it returns the   *)
(* empty sequence.                                                          *)
C1_SnapshotCount ==
  /\ pc # "loop" /\ calls > 0 =>
       /\ Len(result) = Max(0, simParams.months)
       /\ \A i \in Snapshots : result[i].t = i - 1
  /\ \A h \in history : Len(h[2]) = Max(0, h[1].months)

\* calls have returned for a negative horizon (nothing) and for a long one
C1_Witness ==
  \E a, b \in history :
    /\ a[1].months < 0 /\ a[2] = <<>>
    /\ b[1].months >= 2 /\ Len(b[2]) = b[1].months

(* On parameter sets that give every field as a number: after every pass   *)
(* of the loop the employed share lies in [0.45, 0.70] and no local is     *)
(* NaN, and every snapshot's unemployed count is a number not below 0.     *)
NumericShareBounds ==
  /\ t > 0 => /\ ShareFloor <= employedShare
              /\ employedShare <= ShareCeil
              /\ nanLocals = {}
  /\ \A i \in Snapshots : /\ result[i].unemployed >= 0
                          /\ "unemployed" \notin result[i].nan

\* a pass whose share, before the clamp, was above 0.70
ClampedAtCeil ==
  /\ t > 0
  /\ rawShare > ShareCeil
  /\ employedShare = ShareCeil
  /\ result[t].unemployed = 0

\* a pass whose share, before the clamp, was below 0.45
ClampedAtFloor ==
  /\ t > 0
  /\ rawShare < ShareFloor
  /\ employedShare = ShareFloor

(* C3: simulate is deterministic: two calls with equal parameters return    *)
(* equal sequences, whatever calls were made before them.                   *)
C3_Deterministic ==
  /\ \A a, b \in history : a[1] = b[1] => a[2] = b[2]
  /\ pc \in {"returned", "projected"} =>
       \A h \in history : h[1] = simParams => h[2] = result

(* three calls have returned, the last with the parameters of the first     *)
(* and another call in between                                              *)
C3_Witness ==
  /\ calls = 3
  /\ pc = "returned"
  /\ Cardinality(history) = 2
  /\ Len(result) >= 2
  /\ \E h \in history : h[1] # simParams /\ Len(h[2]) >= 1

(* C4: each pass sets population to population + births - deaths +          *)
(* migration and records its rounding; from the default rates the first     *)
(* snapshot's population is round(146000000 + births - deaths + migration). *)
C4_PopulationUpdate ==
  /\ t > 0 =>
       /\ population = prevPopulation + Births(simParams, prevPopulation)
                         - Deaths(simParams, prevPopulation)
                         + Migration(simParams)
       /\ result[t].population = MathRound(population)
  /\ t = 1 =>
       /\ prevPopulation = 146000000 * PersonScale
       /\ result[1].population =
            MathRound(146000000 * PersonScale
                      + Births(simParams, 146000000 * PersonScale)
                      - Deaths(simParams, 146000000 * PersonScale)
                      + Migration(simParams))
  /\ (t > 0 /\ simParams = [defaultParams EXCEPT !.months = simParams.months]) =>
       result[1].population = 145973754

\* the first pass from the default rates: 146000000 becomes 145973754
C4_Witness ==
  /\ t = 1
  /\ simParams = [defaultParams EXCEPT !.months = simParams.months]
  /\ prevPopulation = 146000000 * PersonScale
  /\ Migration(simParams) > 0
  /\ result[1].population = 145973754

(* C6: for data of two snapshots or more, cityCollection has one feature    *)
(* per city, in the cities' order; its value is round(last.employed *       *)
(* pop / totalBase) and its growth round((last.employed - prev.employed) *  *)
(* pop / totalBase), prev being the second-to-last snapshot; so the values  *)
(* add up to last.employed but for the roundings.                           *)
C6_CityProjection ==
  (pc = "projected" /\ Len(result) >= 2) =>
    /\ Len(features) = Len(cities)
    /\ \A i \in 1..Len(cities) :
         /\ features[i].name = cities[i].name
         /\ features[i].nan = {}
         /\ features[i].value =
              MulDivRound(result[Len(result)].employed, cities[i].pop, totalBase)
         /\ features[i].growth =
              MulDivRound(result[Len(result)].employed
                            - result[Len(result) - 1].employed,
                          cities[i].pop, totalBase)
    /\ Abs(SumOf(features, "value", Len(features))
             - result[Len(result)].employed) <= Len(cities)
    /\ Abs(SumOf(features, "growth", Len(features))
             - (result[Len(result)].employed
                  - result[Len(result) - 1].employed)) <= Len(cities)

\* three snapshots, the last two and the first all different in employed
C6_Witness ==
  /\ pc = "projected"
  /\ Len(result) = 3
  /\ result[3].employed # result[2].employed
  /\ result[2].employed # result[1].employed
  /\ features[1].growth # 0
  /\ features[1].value > features[Len(features)].value

(* C7: for data of exactly one snapshot, the previous snapshot is the last  *)
(* one itself and every feature's growth is 0.                              *)
C7_SingleSnapshotGrowth ==
  (pc = "projected" /\ Len(result) = 1) =>
    \A i \in 1..Len(features) :
      /\ features[i].growth = 0
      /\ "growth" \notin features[i].nan

\* a collection made of a single snapshot in which people are employed
C7_Witness ==
  /\ pc = "projected"
  /\ Len(result) = 1
  /\ Len(features) = Len(cities)
  /\ features[1].value > 0
  /\ features[1].growth = 0


(* C11, as claimed: two passes with equal static parameters, population    *)
(* and employedShare before them leave equal population and employedShare, *)
(* whatever their month indices.                                           *)
C11_MarkovWhateverMonth ==
  \A a, b \in passes :
    (/\ a.population = b.population
     /\ a.employedShare = b.employedShare
     /\ a.static = b.static)
    => /\ a.nextPopulation = b.nextPopulation
       /\ a.nextShare = b.nextShare

(* C11, amended: the population a pass leaves depends only on the static   *)
(* parameters and the population before it; the employedShare it leaves    *)
(* depends only on the static parameters, the population and employedShare *)
(* before it and the month index.                                          *)
C11_MarkovAtMonth ==
  \A a, b \in passes :
    (a.population = b.population /\ a.static = b.static) =>
      /\ a.nextPopulation = b.nextPopulation
      /\ (a.employedShare = b.employedShare /\ a.t = b.t) =>
           a.nextShare = b.nextShare

(* two calls with equal static parameters and different horizons have made *)
(* passes, and two passes at different month indices started from equal    *)
(* locals and left equal populations and different shares                  *)
C11_Witness ==
  /\ \E g, h \in history :
       /\ g[1] # h[1]
       /\ [g[1] EXCEPT !.months = 0] = [h[1] EXCEPT !.months = 0]
       /\ Len(g[2]) >= 1 /\ Len(h[2]) >= 1
  /\ \E a, b \in passes :
       /\ a.static = b.static
       /\ a.t # b.t
       /\ a.population = b.population
       /\ a.employedShare = b.employedShare
       /\ a.nextPopulation = b.nextPopulation
       /\ a.nextShare # b.nextShare

(* C12: every snapshot's population is not below 0, for every parameter    *)
(* set and every horizon.                                                  *)
C12_PopulationNonNegative ==
  \A i \in Snapshots :
    /\ "population" \notin result[i].nan
    /\ result[i].population >= 0

(* C13: the snapshots are in the order of t: the one at index i (from 0)   *)
(* has t = i, so while the loop runs and in every sequence returned t goes *)
(* 0, 1, 2, ... with no gap, repeat or reordering.                         *)
C13_OrderedByT ==
  /\ Len(result) = (IF pc = "idle" THEN 0 ELSE t)
  /\ \A i \in Snapshots : result[i].t = i - 1
  /\ \A h \in history : \A i \in 1..Len(h[2]) : h[2][i].t = i - 1

\* a sequence of three snapshots has been returned, numbered 0, 1, 2
C13_Witness ==
  /\ pc = "returned"
  /\ Len(result) = 3
  /\ <<result[1].t, result[2].t, result[3].t>> = <<0, 1, 2>>
  /\ <<simParams, result>> \in history

\* the pass of the running (or last) call at month index tt
PassAt(tt) ==
  CHOOSE a \in passes : a.t = tt /\ a.static = [simParams EXCEPT !.months = 0]

\* pass b started from the locals pass a left, and left what the code computes
Follows(a, b) ==
  /\ b.population = a.nextPopulation
  /\ b.employedShare = a.nextShare
  /\ b.nextPopulation =
       NextPopulation(a.nextPopulation, Births(b.static, a.nextPopulation),
                      Deaths(b.static, a.nextPopulation), Migration(b.static))
  /\ b.nextShare = ClampShare(RawShare(b.static, b.t, a.nextShare))

(* C14: only the snapshot's fields are rounded: the locals after a pass    *)
(* are the unrounded population and employedShare it computed, the         *)
(* snapshot holds the rounding of that population, and the next pass       *)
(* starts from the unrounded locals.                                       *)
C14_UnroundedCarried ==
  /\ t >= 1 => /\ PassAt(t - 1).nextPopulation = population
               /\ PassAt(t - 1).nextShare = employedShare
               /\ result[t].population = MathRound(population)
  /\ t >= 2 => /\ Follows(PassAt(t - 2), PassAt(t - 1))
               /\ result[t - 1].population = MathRound(PassAt(t - 1).population)

(* a pass started from a population with a fraction, whose rounding would  *)
(* have led to another population                                          *)
C14_Witness ==
  /\ t >= 2
  /\ PassAt(t - 1).population % PersonScale # 0
  /\ PassAt(t - 1).population # result[t - 1].population * PersonScale
  /\ population #
       NextPopulation(result[t - 1].population * PersonScale,
                      Births(simParams, result[t - 1].population * PersonScale),
                      Deaths(simParams, result[t - 1].population * PersonScale),
                      Migration(simParams))

\* the labour-force ceiling 0.68 in the unit of employedShare
CeilingShare == LabourCeiling * (ShareScale \div 100)

(* unrounded employed e and unemployed u of a pass that left population    *)
(* pop and employedShare share: their sum and when u is 0                  *)
LabourSplit(pop, share, e, u) ==
  /\ e + u = MulDiv(pop, Max(share, CeilingShare), ShareScale)
  /\ e + u <= MulDiv(pop, ShareCeil, ShareScale)
  /\ u = 0 <=> (share >= CeilingShare \/ pop = 0)

(* the last snapshot holds the roundings of e and of the unemployed count  *)
(* the code makes of it, and the two split the labour force as above       *)
SnapshotSplit(pop, share, e) ==
  /\ result[t].employed = MathRound(e)
  /\ result[t].unemployed = MathRound(Unemployed(pop, e))
  /\ LabourSplit(pop, share, e, Unemployed(pop, e))

(* C15: after every pass that leaves a population not below 0, the         *)
(* unrounded employed and unemployed counts, whose roundings the snapshot  *)
(* holds, add up to max(employedShare, 0.68) * population, so to no more   *)
(* than 0.70 * population, and unemployed is 0 exactly when employedShare  *)
(* >= 0.68 or the population is 0.                                         *)
C15_LabourSplit ==
  (t >= 1 /\ population >= 0) =>
    SnapshotSplit(population, employedShare, Employed(population, employedShare))

(* a call whose first pass left a share below 0.68 and people unemployed,  *)
(* and a later pass a share above 0.68 and nobody unemployed               *)
C15_Witness ==
  /\ t >= 2
  /\ population > 0
  /\ PassAt(0).nextShare < CeilingShare
  /\ result[1].unemployed > 0
  /\ employedShare > CeilingShare
  /\ result[t].unemployed = 0
  /\ result[t].employed > 0

\* ------------------------------------------------------ the map's layers
(* The Map that useMap makes: whether its 'load' event has fired, whether  *)
(* it is loading something after that (map.loaded() is then false), the    *)
(* 'load' listeners not called yet, each with the cityCollection its       *)
(* closure holds, and the 'cities' source and the layers of its style.     *)
NewMap ==
  [loadFired |-> FALSE, loading |-> FALSE, listeners |-> <<>>,
   source |-> [kind |-> "none"], layers |-> <<>>, sourceAdds |-> 0]

\* map.loaded()
MapLoaded(m) == m.loadFired /\ ~m.loading

\* the two layers ensureLayers adds, in the order it adds them
CityLayers == <<"cities-circles", "cities-labels">>

\* ensureLayers of an effect whose closure holds the cityCollection cc
EnsureLayers(m, cc) ==
  IF m.source.kind = "none"
    THEN [m EXCEPT !.source = [kind |-> "geojson", data |-> cc],
                   !.layers = @ \o CityLayers,
                   !.sourceAdds = @ + 1]
    ELSE [m EXCEPT !.source.data = cc]

(* The effect on [cityCollection, mapRef]: ensureLayers at once if         *)
(* map.loaded(), else map.on('load', ensureLayers).                        *)
LayerEffect(m, cc) ==
  IF MapLoaded(m) THEN EnsureLayers(m, cc)
  ELSE [m EXCEPT !.listeners = Append(@, cc)]

\* the 'load' event calls its listeners in the order they were registered
RECURSIVE CallListeners(_, _, _)
CallListeners(m, ls, i) ==
  IF i > Len(ls) THEN m ELSE CallListeners(EnsureLayers(m, ls[i]), ls, i + 1)

\* ------------------------------------------------------- App, its handlers
\* the page is mounted: a render that threw unmounts it
Mounted == thrown = "none"

AppInit ==
  /\ params = defaultParams
  /\ data = simulate(defaultParams)
  /\ collection = cityCollection(data)
  /\ storage \in InitialStorage
  /\ inflight = 0
  /\ thrown = "none"
  /\ ops = 0
  /\ lastOp = "init"
  /\ beforeParams = defaultParams
  /\ overlay = <<>>
  /\ escaped = FALSE
  /\ savedParams = defaultParams
  /\ storedBySave = FALSE
  /\ map = LayerEffect(NewMap, collection)

(* setParams(p) and the render it causes: the data and cityCollection      *)
(* memos are recomputed and, unless the render throws, committed, and the  *)
(* effect on the new cityCollection runs.                                  *)
Commit(p, d) ==
  /\ params' = p
  /\ thrown' = RenderThrows(p, d)
  /\ IF RenderThrows(p, d) = "none"
       THEN /\ data' = d
            /\ collection' = cityCollection(d)
            /\ map' = LayerEffect(map, collection')
       ELSE UNCHANGED <<data, collection, map>>

SetParams(p) == Commit(p, simulate(p))

\* a top-level slider: setParams({ ...params, [key]: Number(e.target.value) })
EditTop(k, v) ==
  /\ UNCHANGED simVars
  /\ Mounted
  /\ ops < MaxOps
  /\ SetParams([x \in DOMAIN params \cup {k} |-> IF x = k THEN v ELSE params[x]])
  /\ ops' = ops + 1
  /\ lastOp' = "edit"
  /\ beforeParams' = params
  /\ UNCHANGED <<storage, inflight, overlay, escaped, savedParams, storedBySave>>

\* a grouped slider: setParams({ ...params, g: { ...params.g, [key]: value } })
EditGroup(g, k, v) ==
  /\ UNCHANGED simVars
  /\ Mounted
  /\ ops < MaxOps
  /\ SetParams([params EXCEPT
                  ![g] = [x \in DOMAIN params[g] \cup {k} |->
                            IF x = k THEN v ELSE params[g][x]]])
  /\ ops' = ops + 1
  /\ lastOp' = "edit"
  /\ beforeParams' = params
  /\ UNCHANGED <<storage, inflight, overlay, escaped, savedParams, storedBySave>>

\* "load policy.json" is clicked: fetch('/data/policy.json') is awaited
PolicyClick ==
  /\ UNCHANGED simVars
  /\ Mounted
  /\ ops < MaxOps
  /\ inflight < MaxInFlight
  /\ inflight' = inflight + 1
  /\ ops' = ops + 1
  /\ lastOp' = "policyClick"
  /\ beforeParams' = params
  /\ UNCHANGED <<params, data, collection, map, storage, thrown, overlay, escaped,
                 savedParams, storedBySave>>

\* fetch rejects: the catch swallows it
PolicyFetchFails ==
  /\ UNCHANGED simVars
  /\ inflight > 0
  /\ inflight' = inflight - 1
  /\ lastOp' = "policyFetchFailed"
  /\ beforeParams' = params
  /\ UNCHANGED <<params, data, collection, map, storage, thrown, ops, overlay, escaped,
                 savedParams, storedBySave>>

\* res.json() rejects (the body is no JSON): the catch swallows it
PolicyParseFails ==
  /\ UNCHANGED simVars
  /\ inflight > 0
  /\ inflight' = inflight - 1
  /\ lastOp' = "policyParseFailed"
  /\ beforeParams' = params
  /\ UNCHANGED <<params, data, collection, map, storage, thrown, ops, overlay, escaped,
                 savedParams, storedBySave>>

(* The response arrives with document json: the params are merged and the  *)
(* document is stored.  On an unmounted page setParams does nothing.       *)
PolicyLoaded(json) ==
  /\ UNCHANGED simVars
  /\ inflight > 0
  /\ inflight' = inflight - 1
  /\ IF Mounted
       THEN SetParams(PolicyMerge(params, json))
       ELSE UNCHANGED <<params, data, collection, map, thrown>>
  /\ storage' = [kind |-> "json", text |-> JSONstringify(json)]
  /\ storedBySave' = FALSE
  /\ lastOp' = IF Mounted THEN "policyLoaded" ELSE "policyStored"
  /\ beforeParams' = params
  /\ overlay' = json
  /\ UNCHANGED <<ops, escaped, savedParams>>

\* "save settings": localStorage.setItem('policy', JSON.stringify(params))
SaveSettings ==
  /\ UNCHANGED simVars
  /\ Mounted
  /\ ops < MaxOps
  /\ storage' = [kind |-> "json", text |-> JSONstringify(params)]
  /\ savedParams' = params
  /\ storedBySave' = TRUE
  /\ ops' = ops + 1
  /\ lastOp' = "save"
  /\ beforeParams' = params
  /\ UNCHANGED <<params, data, collection, map, inflight, thrown, overlay, escaped>>

(* "load settings": nothing for a missing or empty item; JSON.parse throws *)
(* out of the handler for a text that is no JSON; otherwise the parsed     *)
(* document is merged.                                                     *)
LoadSettings ==
  /\ UNCHANGED simVars
  /\ Mounted
  /\ ops < MaxOps
  /\ ops' = ops + 1
  /\ beforeParams' = params
  /\ CASE storage.kind \in {"none", "empty"} ->
            /\ lastOp' = "loadNothing"
            /\ UNCHANGED <<params, data, collection, map, thrown, overlay, escaped>>
       [] storage.kind = "garbage" ->
            /\ lastOp' = "loadParseFailed"
            /\ escaped' = TRUE
            /\ UNCHANGED <<params, data, collection, map, thrown, overlay>>
       [] storage.kind = "json" ->
            /\ lastOp' = "loadSettings"
            /\ SetParams(SettingsMerge(params, JSONparse(storage.text)))
            /\ overlay' = JSONparse(storage.text)
            /\ UNCHANGED escaped
  /\ UNCHANGED <<storage, inflight, savedParams, storedBySave>>

AppNext ==
  \/ \E e \in TopEdits : EditTop(e[1], e[2])
  \/ \E e \in GroupEdits : EditGroup(e[1], e[2], e[3])
  \/ PolicyClick
  \/ PolicyFetchFails
  \/ PolicyParseFails
  \/ \E json \in PolicyDocs : PolicyLoaded(json)
  \/ SaveSettings
  \/ LoadSettings

(* The map's 'load' event, fired once: every listener registered so far   *)
(* is called, in order.                                                    *)
MapLoad ==
  /\ UNCHANGED simVars
  /\ Mounted
  /\ ~map.loadFired
  /\ map' = [CallListeners(map, map.listeners, 1) EXCEPT
               !.loadFired = TRUE, !.listeners = <<>>]
  /\ lastOp' = "mapLoad"
  /\ beforeParams' = params
  /\ UNCHANGED <<params, data, collection, storage, inflight, thrown, ops,
                 overlay, escaped, savedParams, storedBySave>>

(* After 'load' the map starts loading again (tiles after a pan or zoom,   *)
(* the data of a source): map.loaded() is false until it is done.          *)
MapStartsLoading ==
  /\ UNCHANGED simVars
  /\ Mounted
  /\ map.loadFired
  /\ ~map.loading
  /\ map' = [map EXCEPT !.loading = TRUE]
  /\ lastOp' = "mapStartsLoading"
  /\ beforeParams' = params
  /\ UNCHANGED <<params, data, collection, storage, inflight, thrown, ops,
                 overlay, escaped, savedParams, storedBySave>>

\* what the map was loading has arrived: map.loaded() is true again
MapSettles ==
  /\ UNCHANGED simVars
  /\ Mounted
  /\ map.loading
  /\ map' = [map EXCEPT !.loading = FALSE]
  /\ lastOp' = "mapSettles"
  /\ beforeParams' = params
  /\ UNCHANGED <<params, data, collection, storage, inflight, thrown, ops,
                 overlay, escaped, savedParams, storedBySave>>

\* the sliders and the map's events
MapNext ==
  \/ \E e \in TopEdits : EditTop(e[1], e[2])
  \/ \E e \in GroupEdits : EditGroup(e[1], e[2], e[3])
  \/ MapLoad
  \/ MapStartsLoading
  \/ MapSettles

\* ---------------------------------------------------- properties of App
\* the steps that merged an overlay document into the params
OverlaySteps == {"policyLoaded", "loadSettings"}

\* the steps in which loading an overlay failed
FailedLoadSteps == {"policyFetchFailed", "policyParseFailed", "loadParseFailed"}

\* the fields of group g the document gives
GivenIn(json, g) ==
  IF Has(json, g) /\ json[g] # JsNull THEN DOMAIN json[g] ELSE {}

(* C2: whatever parameter set became current, every snapshot of the data   *)
(* simulate made of it has an employed count that is a number, as one made *)
(* of a share in [0.45, 0.70] is, and an unemployed count that is a number *)
(* not below 0.                                                            *)
C2_DataBounds ==
  \A i \in 1..Len(data) :
    /\ "employed" \notin data[i].nan
    /\ "unemployed" \notin data[i].nan
    /\ data[i].unemployed >= 0

(* C5: no parameter set that becomes current, by a slider, by policy.json  *)
(* or by the stored settings, makes the recomputation of data and of the   *)
(* cities' value and growth throw.                                         *)
C5_RecomputationNeverThrows == thrown # "cityCollection"

(* C8: merging an overlay document leaves every field the document does    *)
(* not give at its current value: the top-level fields, and the fields of  *)
(* each of the three groups one by one.                                    *)
C8_OverlayKeepsUnspecified ==
  lastOp \in OverlaySteps =>
    /\ \A k \in DOMAIN beforeParams \ Groups :
         ~Has(overlay, k) => Has(params, k) /\ params[k] = beforeParams[k]
    /\ \A g \in Groups :
         \A f \in DOMAIN beforeParams[g] \ GivenIn(overlay, g) :
           Has(params[g], f) /\ params[g][f] = beforeParams[g][f]

(* C9: "load settings" after "save settings", with any slider edits in     *)
(* between, makes the params equal, field for field, to the params that    *)
(* were saved.                                                             *)
C9_SaveLoadRoundTrip ==
  (lastOp = "loadSettings" /\ storedBySave) => params = savedParams

\* saved, then edited, then loaded: the edit is undone by the load
C9_Witness ==
  /\ lastOp = "loadSettings"
  /\ storedBySave
  /\ beforeParams # savedParams
  /\ params = savedParams
  /\ thrown = "none"

(* C10: when loading an overlay fails, from policy.json or from the        *)
(* storage key, no exception leaves the handler and the params are what    *)
(* they were before.                                                       *)
C10_FailedLoadSwallowed ==
  lastOp \in FailedLoadSteps => ~escaped /\ params = beforeParams


(* C16: once the map's 'load' event has fired, the 'cities' source holds   *)
(* the cityCollection of the current params, whatever the order of slider  *)
(* moves and map events was and whatever map.loaded() said when an effect  *)
(* ran, and the source and its two layers have been added exactly once.    *)
C16_SourceFollowsParams ==
  (Mounted /\ map.loadFired) =>
    /\ map.source.kind = "geojson"
    /\ map.source.data = collection
    /\ map.sourceAdds = 1
    /\ map.layers = CityLayers

\* ---------------------------------------------------- the specifications
\* the page, with simulate run whole inside each render
Init == AppInit /\ SimInit
Next == AppNext
Spec == Init /\ [][Next]_vars

\* simulate and cityCollection one step at a time, on the arguments SimInputs
SimSpecInit == SimInit /\ AppInit /\ storage.kind = "none"
SimSpec == SimSpecInit /\ [][SimNext]_vars

\* the sliders interleaved with the events of the map
MapSpecInit == AppInit /\ SimInit /\ storage.kind = "none"
MapSpec == MapSpecInit /\ [][MapNext]_vars

====
